---- MODULE Spec2Model ----
(***************************************************************************)
(* anti_arpspoof: the active ARP scan that builds the trust table, and the *)
(* monitoring loop (guard) that classifies later ARP replies against it.   *)
(*                                                                         *)
(* An IPv4 address is the four bytes of a uint32_t in memory order, which  *)
(* for s_addr is network order: <<192,168,0,1>> is 192.168.0.1 on every    *)
(* machine.  Integer addition on such a value depends on the byte order of *)
(* the machine, so the byte order is part of the state.                    *)
(* A hardware address is a number; its order stands for the memcmp order   *)
(* of the six bytes.                                                       *)
(***************************************************************************)
EXTENDS Integers, Sequences, FiniteSets, TLC

\* ------------------------------------------------------------ bounds
\* Hardware addresses seen on the segment: 1..MaxHW.
MaxHW == 2
\* The count of requests sent saturates here (a scan may never end).
MaxSent == 520
\* The count of decision requests per address saturates here.
MaxPrompts == 3

\* ------------------------------------------------------------ constants
MAX_TRIES_FOR_RESOLV == 5
ARPOP_REQUEST == 1
ARPOP_REPLY == 2
Byte == 256

HW == 1..MaxHW

\* Sender protocol addresses carried by the frames on the segment.
FrameIPs == { <<192,168,0,1>>, <<192,168,0,2>>, <<192,168,0,9>> }

\* <<firstHost, lastHost>> of the interfaces considered: empty range, a
\* range inside one octet, a /23 whose broadcast lies in the next octet.
Ranges ==
  { << <<192,168,0,1>>, <<192,168,0,1>> >>,
    << <<192,168,0,1>>, <<192,168,0,3>> >>,
    << <<192,168,0,1>>, <<192,168,1,255>> >> }

\* Lines the operator may type at the prompt.
Options == { "Y", "y", "N", "n", "", "no" }

NoFrame == [opcode |-> 0, hw_src |-> 0, ip_src |-> <<0,0,0,0>>]
Frames == [opcode : {ARPOP_REQUEST, ARPOP_REPLY}, hw_src : HW, ip_src : FrameIPs]
NoOption == "-"

VARIABLES
  pc,            \* position of the single thread of control
  exitCode,      \* -1 while running, else the value main returns
  startup,       \* how main's startup went; "none" before it
  littleEndian,  \* byte order of the machine the build runs on
  ld,            \* LocalData: [firstHost, lastHost]
  host,          \* scan: host.s_addr
  attempts,      \* scan: attempts
  table,         \* ARPTable: hardware address -> address
  reply,         \* guard: the frame buffer last filled by read
  active,        \* atomic<bool> active
  ignored,       \* guard: set<uint32_t> ignored
  option,        \* guard: the line read by getline for the current frame
  \* observations, not read by the program
  sent,          \* requests written by scan so far (saturating)
  reads,         \* reads done for the current candidate
  rd,            \* how the last read for the current candidate ended
  lastAccepted,  \* per hardware address, the last resolving reply's address
  prompts,       \* per address, the decision requests made (saturating)
  emitted,       \* reports printed while handling the current frame
  calls,         \* addARPEntry invocations while handling the current frame
  branch,        \* which way the current frame went through guard
  sigAt          \* the position guard was in when sigKill ran

vars == << pc, exitCode, startup, rd, littleEndian, ld, host, attempts, table,
           reply, active, ignored, option, sent, reads, lastAccepted, prompts,
           emitted, calls, branch, sigAt >>

scanVars == << host, attempts, table, reply, sent, reads, rd, lastAccepted >>
scanRest == << host, attempts, reply, sent, reads, rd, lastAccepted >>
guardObs == << prompts, emitted, calls, branch, option >>

\* ------------------------------------------------------------ helpers
Min(S) == CHOOSE x \in S : \A y \in S : x <= y

\* The memory bytes of htonl(1): 00 00 00 01 whatever the byte order.
IP_ONE == <<0,0,0,1>>

\* uint32_t addition of two values given by their memory bytes; the carry
\* runs from the least significant byte, which is the first byte in memory
\* on a little-endian machine and the last on a big-endian one, and the
\* carry out of the most significant byte is lost.
AddU32(x, y, le) ==
  LET o  == IF le THEN <<1,2,3,4>> ELSE <<4,3,2,1>>
      s1 == x[o[1]] + y[o[1]]
      s2 == x[o[2]] + y[o[2]] + (s1 \div Byte)
      s3 == x[o[3]] + y[o[3]] + (s2 \div Byte)
      s4 == x[o[4]] + y[o[4]] + (s3 \div Byte)
      r  == [i \in 1..4 |-> IF i = o[1] THEN s1 % Byte
                            ELSE IF i = o[2] THEN s2 % Byte
                            ELSE IF i = o[3] THEN s3 % Byte
                            ELSE s4 % Byte]
  IN << r[1], r[2], r[3], r[4] >>

\* b - a as IPv4 addresses (host byte order), for addresses close together.
Diff(a, b) ==
  (((b[1] - a[1]) * Byte + (b[2] - a[2])) * Byte + (b[3] - a[3])) * Byte
    + (b[4] - a[4])

Put(t, hw, ip) == [h \in (DOMAIN t) \cup {hw} |-> IF h = hw THEN ip ELSE t[h]]

EmptyTable == [h \in {} |-> <<0,0,0,0>>]

\* ------------------------------------------------------------ initial state
Init ==
  /\ pc = "start"
  /\ exitCode = -1
  /\ startup = "none"
  /\ rd = "none"
  /\ littleEndian \in BOOLEAN
  /\ ld \in { [firstHost |-> r[1], lastHost |-> r[2]] : r \in Ranges }
  /\ host = <<0,0,0,0>>
  /\ attempts = 0
  /\ table = EmptyTable
  /\ reply = NoFrame
  /\ active = TRUE
  /\ ignored = {}
  /\ option = NoOption
  /\ sent = 0
  /\ reads = 0
  /\ lastAccepted = EmptyTable
  /\ prompts = [ip \in FrameIPs |-> 0]
  /\ emitted = << >>
  /\ calls = << >>
  /\ branch = "none"
  /\ sigAt = "none"

\* ------------------------------------------------------------ main: startup
\* main up to the call of scan: a wrong argument count, loadLocalData or
\* initSocket throwing end the process with 1.
\* Startup whose handler prints the error and does not return.
Startup_FallThrough ==
  /\ pc = "start"
  /\ \E outcome \in {"usage", "loadLocalData_throws", "initSocket_throws",
                      "ok"} :
       /\ startup' = outcome
       /\ IF outcome # "usage"
          THEN /\ pc' = "scan_for"
               /\ host' = ld.firstHost
               /\ exitCode' = exitCode
          ELSE /\ pc' = "done"
               /\ exitCode' = 1
               /\ host' = host
  /\ UNCHANGED << littleEndian, ld, attempts, table, reply, active, ignored,
                  sent, reads, rd, lastAccepted, sigAt >>
  /\ UNCHANGED guardObs

Startup ==
  /\ pc = "start"
  /\ \E outcome \in {"usage", "loadLocalData_throws", "initSocket_throws",
                      "ok"} :
       /\ startup' = outcome
       /\ IF outcome = "ok"
          THEN /\ pc' = "scan_for"
               /\ host' = ld.firstHost
               /\ exitCode' = exitCode
          ELSE /\ pc' = "done"
               /\ exitCode' = 1
               /\ host' = host
  /\ UNCHANGED << littleEndian, ld, attempts, table, reply, active, ignored,
                  sent, reads, rd, lastAccepted, sigAt >>
  /\ UNCHANGED guardObs

\* ------------------------------------------------------------ scan
\* Resolves without the comparison of the sender address with the candidate.
Resolves_AnyReply(f, h) == f.opcode = ARPOP_REPLY

\* The resolving test of the do-while body.
Resolves(f, h) == f.opcode = ARPOP_REPLY /\ f.ip_src = h

\* attempts after a read that returned a frame, without the reset on a
\* resolving reply.
Remaining_KeepReading(a, f, h) == a - 1

\* attempts after a read that returned a frame, without the decrement.
Remaining_NoDecrement(a, f, h) == IF Resolves(f, h) THEN 0 ELSE a

\* attempts after a read that returned the frame f while h is probed.
Remaining(a, f, h) == IF Resolves(f, h) THEN 0 ELSE a - 1

\* attempts after a read that timed out, decremented like a wrong frame.
AfterTimeout_Decrement(a) == a - 1

\* attempts after a read that returned nothing.
AfterTimeout(a) == 0

\* The for statement's condition: enter the body (write the request) or
\* leave the loop and return the table.
ScanFor ==
  /\ pc = "scan_for"
  /\ IF host # ld.lastHost
     THEN /\ attempts' = MAX_TRIES_FOR_RESOLV
          /\ sent' = IF sent < MaxSent THEN sent + 1 ELSE sent
          /\ reads' = 0
          /\ rd' = "none"
          /\ pc' = "scan_read"
     ELSE /\ pc' = "scanned"
          /\ UNCHANGED << attempts, sent, reads, rd >>
  /\ UNCHANGED << exitCode, littleEndian, startup, ld, host, table, reply,
                  active, ignored, lastAccepted, sigAt >>
  /\ UNCHANGED guardObs

\* One pass of the do-while: a read that returns a frame f.
ScanReadFrame(f) ==
  /\ pc = "scan_read"
  /\ reads' = reads + 1
  /\ rd' = IF Resolves(f, host) THEN "match" ELSE "nomatch"
  /\ table' = IF Resolves(f, host) THEN Put(table, f.hw_src, f.ip_src)
              ELSE table
  /\ attempts' = Remaining(attempts, f, host)
  /\ lastAccepted' = IF f.opcode = ARPOP_REPLY /\ f.ip_src = host
                     THEN Put(lastAccepted, f.hw_src, f.ip_src)
                     ELSE lastAccepted
  /\ IF attempts' # 0
     THEN /\ pc' = "scan_read"
          /\ host' = host
     ELSE /\ pc' = "scan_for"
          /\ host' = AddU32(host, IP_ONE, littleEndian)
  /\ UNCHANGED << exitCode, littleEndian, startup, ld, reply, active, ignored,
                  sent, sigAt >>
  /\ UNCHANGED guardObs

\* One pass of the do-while: a read that returns nothing (timeout).
ScanReadTimeout ==
  /\ pc = "scan_read"
  /\ reads' = reads + 1
  /\ rd' = "timeout"
  /\ attempts' = AfterTimeout(attempts)
  /\ IF attempts' # 0
     THEN /\ pc' = "scan_read"
          /\ host' = host
     ELSE /\ pc' = "scan_for"
          /\ host' = AddU32(host, IP_ONE, littleEndian)
  /\ UNCHANGED << exitCode, littleEndian, startup, ld, table, reply, active,
                  ignored, sent, lastAccepted, sigAt >>
  /\ UNCHANGED guardObs

ScanRead == ScanReadTimeout \/ \E f \in Frames : ScanReadFrame(f)

\* main between scan and guard: print the table, install the handler.
AfterScan ==
  /\ pc = "scanned"
  /\ pc' = "g_top"
  /\ UNCHANGED << exitCode, littleEndian, startup, ld, host, attempts, table,
                  reply, active, ignored, sent, reads, rd, lastAccepted,
                  sigAt >>
  /\ UNCHANGED guardObs

\* ------------------------------------------------------------ guard
\* while( active ): enter the body and block in read, or leave the loop.
GuardTop ==
  /\ pc = "g_top"
  /\ IF active
     THEN /\ pc' = "g_read"
          /\ emitted' = << >>
          /\ calls' = << >>
          /\ branch' = "none"
          /\ option' = NoOption
     ELSE /\ pc' = "closing"
          /\ UNCHANGED << emitted, calls, branch, option >>
  /\ UNCHANGED << exitCode, littleEndian, startup, ld, active, ignored,
                  prompts, sigAt >>
  /\ UNCHANGED scanVars

\* read returns a frame.  A frame already queued when the signal arrives is
\* still returned by the read in progress.
GuardReadFrame(f) ==
  /\ pc = "g_read"
  /\ reply' = f
  /\ pc' = "g_classify"
  /\ UNCHANGED << exitCode, littleEndian, startup, ld, host, attempts, table,
                  active, ignored, sent, reads, rd, lastAccepted, sigAt >>
  /\ UNCHANGED guardObs

\* read returns nothing: the receive timeout ran out, or the signal
\* interrupted it.
GuardReadTimeout ==
  /\ pc = "g_read"
  /\ pc' = "g_top"
  /\ branch' = "timeout"
  /\ UNCHANGED << exitCode, littleEndian, startup, ld, active, ignored, sigAt,
                  prompts, emitted, calls, option >>
  /\ UNCHANGED scanVars

GuardRead == GuardReadTimeout \/ \E f \in Frames : GuardReadFrame(f)

\* Conflict with the comparison inverted.
Conflict_Inverted(f) == table[f.hw_src] = f.ip_src

\* Suppressed looking up the registered address instead of the claimed one.
Suppressed_ByRegistered(f) == table[f.hw_src] \in ignored

\* The tests guard makes on a frame, in the order it makes them.
IsReply(f) == f.opcode = ARPOP_REPLY
Known(f) == f.hw_src \in DOMAIN table
Conflict(f) == table[f.hw_src] # f.ip_src
Suppressed(f) == f.ip_src \in ignored

\* The lookup done with operator[], which inserts a missing key.
AfterLookup_Subscript(t, f) ==
  IF f.hw_src \in DOMAIN t THEN t ELSE Put(t, f.hw_src, <<0,0,0,0>>)

\* The table after table.at(hw) on the const reference guard holds.
AfterLookup(t, f) == t

\* Classification without the out_of_range handler: an unknown hardware
\* address falls through to the conflict branch.
Classification_NoCatch(f) ==
  IF f.opcode # ARPOP_REPLY THEN "not_reply"
  ELSE IF f.hw_src \in DOMAIN table /\ table[f.hw_src] = f.ip_src THEN "consistent"
  ELSE IF f.ip_src \in ignored THEN "suppressed"
  ELSE "prompt"

\* The way a received frame takes through the body of the loop.
Classification(f) ==
  IF ~IsReply(f) THEN "not_reply"
  ELSE IF ~Known(f) THEN "new_device"
  ELSE IF ~Conflict(f) THEN "consistent"
  ELSE IF Suppressed(f) THEN "suppressed"
  ELSE "prompt"

\* From the return of read to the prompt or to the end of the iteration.
Classify ==
  /\ pc = "g_classify"
  /\ branch' = Classification(reply)
  /\ emitted' = IF branch' = "new_device" THEN Append(emitted, "new_device")
                ELSE IF branch' = "prompt" THEN Append(emitted, "is_poisoning")
                ELSE emitted
  /\ prompts' = IF branch' = "prompt"
                THEN [prompts EXCEPT ![reply.ip_src] =
                        IF @ < MaxPrompts THEN @ + 1 ELSE @]
                ELSE prompts
  /\ pc' = IF branch' = "prompt" THEN "g_prompt" ELSE "g_top"
  /\ table' = IF IsReply(reply) THEN AfterLookup(table, reply) ELSE table
  /\ UNCHANGED << exitCode, littleEndian, startup, ld, active, ignored, calls,
                  option, sigAt >>
  /\ UNCHANGED scanRest

\* The test on the line getline read.
Accepts(o) == o # "N" /\ o # "n"

\* The table entries the for loop over the table stops at: the first, in key
\* order, whose address is ip.
Owners(ip) == { h \in DOMAIN table : table[h] = ip }
Owner(ip) == Min(Owners(ip))

\* Pinned handing over the sender of the reply.
Pinned_Sender(ip, hw) == hw

\* The hardware address handed to addARPEntry for a reply from hw.
Pinned(ip, hw) == Owner(ip)

\* Find without the reset to false before the loop over the table.
Find_NotReset(o, found, ok) == TRUE

\* The value of find when the test after the prompt is over: o is the line
\* read, found whether the loop met an entry, ok whether addARPEntry returned.
Find(o, found, ok) == IF Accepts(o) THEN found /\ ok ELSE TRUE

\* The ignore set after the iteration, the insertion made on acceptance only.
Inserted_OnAccept(ip, o, found, ok) ==
  IF Accepts(o) THEN ignored \cup {ip} ELSE ignored

\* The ignore set after the iteration, the insertion skipped when
\* addARPEntry threw.
Inserted_UnlessThrown(ip, o, found, ok) ==
  IF found /\ ~ok THEN ignored ELSE ignored \cup {ip}

\* The ignore set after the iteration: ignored.insert( ip.s_addr ).
Inserted(ip, o, found, ok) == ignored \cup {ip}

\* getline returns the line o; addARPEntry, when called, returns (ok) or
\* throws.  Everything after the prompt up to the end of the iteration.
Answer(o, ok) ==
  /\ pc = "g_prompt"
  /\ LET ip     == reply.ip_src
         found  == Accepts(o) /\ Owners(ip) # {}
         find   == Find(o, found, ok)
         e1     == IF found
                   THEN Append(emitted, IF ok THEN "entry_added" ELSE "installer_error")
                   ELSE emitted
         e2     == IF ~find THEN Append(e1, "missing_entry") ELSE e1
     IN /\ option' = o
        /\ calls' = IF found THEN Append(calls, << ip, Pinned(ip, reply.hw_src) >>)
                    ELSE calls
        /\ emitted' = e2
        /\ branch' = IF ~Accepts(o) THEN "declined"
                     ELSE IF ~found THEN "missing"
                     ELSE IF ok THEN "installed" ELSE "install_failed"
        /\ ignored' = Inserted(ip, o, found, ok)
  /\ pc' = "g_top"
  /\ UNCHANGED << exitCode, littleEndian, startup, ld, active, prompts,
                  sigAt >>
  /\ UNCHANGED scanVars

Resolve == \E o \in Options, ok \in BOOLEAN : Answer(o, ok)

\* SIGINT once main has installed the handler.
sigKill ==
  /\ pc \in {"g_top", "g_read", "g_classify", "g_prompt"}
  /\ active
  /\ active' = FALSE
  /\ sigAt' = pc
  /\ UNCHANGED << pc, exitCode, littleEndian, startup, ld, ignored >>
  /\ UNCHANGED scanVars
  /\ UNCHANGED guardObs

\* main after guard returns: close the socket, return 0.
Closing ==
  /\ pc = "closing"
  /\ pc' = "done"
  /\ exitCode' = 0
  /\ UNCHANGED << littleEndian, startup, ld, active, ignored, sigAt >>
  /\ UNCHANGED scanVars
  /\ UNCHANGED guardObs

\* ------------------------------------------------------------ specification
Next ==
  \/ Startup
  \/ ScanFor
  \/ ScanRead
  \/ AfterScan
  \/ GuardTop
  \/ GuardRead
  \/ Classify
  \/ Resolve
  \/ sigKill
  \/ Closing

Spec == Init /\ [][Next]_vars

TypeOK ==
  /\ pc \in {"start", "scan_for", "scan_read", "scanned", "g_top", "g_read",
             "g_classify", "g_prompt", "closing", "done"}
  /\ attempts \in 0..MAX_TRIES_FOR_RESOLV
  /\ ignored \subseteq FrameIPs
  /\ DOMAIN table \subseteq HW

\* The scheduler runs the thread whenever it can take a step by itself: every
\* read has a receive timeout.  Nothing makes the operator type a line, and
\* nothing makes a signal arrive.
ThreadStep ==
  Startup \/ ScanFor \/ ScanRead \/ AfterScan \/ GuardTop \/ GuardRead
    \/ Classify \/ Closing

FairSpec == Init /\ [][Next]_vars /\ WF_vars(ThreadStep)

\* ------------------------------------------------------------ properties
\* The frame in the buffer is a reply whose sender the table binds to
\* another address.
Conflicting ==
  /\ reply.opcode = ARPOP_REPLY
  /\ reply.hw_src \in DOMAIN table
  /\ table[reply.hw_src] # reply.ip_src

\* The operator's line for the current frame was read and is not a refusal.
Accepted == option # NoOption /\ option \notin {"N", "n"}

HasOwner == \E h \in DOMAIN table : table[h] = reply.ip_src

\* C1: the decision is requested at most once per address: a conflicting
\* reply whose address is not ignored makes exactly one request, and a
\* conflicting reply whose address is ignored makes no request and no report.
C1_OncePerAddress ==
  /\ [](\A ip \in FrameIPs : prompts[ip] <= 1)
  /\ [][ (pc = "g_classify" /\ Conflicting /\ pc' # pc) =>
           IF reply.ip_src \in ignored
           THEN /\ prompts' = prompts
                /\ emitted' = << >>
                /\ calls' = << >>
                /\ pc' = "g_top"
           ELSE /\ prompts' = [prompts EXCEPT ![reply.ip_src] = 1]
                /\ pc' = "g_prompt" ]_vars

C1_Witness ==
  /\ pc = "g_top"
  /\ branch = "suppressed"
  /\ Conflicting
  /\ reply.ip_src \in ignored
  /\ prompts[reply.ip_src] = 1
  /\ \E h \in DOMAIN table : h # reply.hw_src /\ table[h] # reply.ip_src

\* C2: on acceptance, when some entry records the address, the installer is
\* invoked exactly once, with the address and a hardware address the table
\* binds to it; it is never invoked with any other hardware address.
C2_PinsOwner ==
  /\ (Accepted /\ HasOwner) =>
        /\ Len(calls) = 1
        /\ calls[1][1] = reply.ip_src
  /\ \A i \in 1..Len(calls) :
        /\ calls[i][2] \in DOMAIN table
        /\ table[calls[i][2]] = calls[i][1]

C2_Witness ==
  /\ Accepted
  /\ Conflicting
  /\ Len(calls) = 1
  /\ calls[1][2] # reply.hw_src

\* C3: on acceptance, when no entry records the address, the installer is
\* not invoked, the missing-entry report is printed and the address is
\* ignored from then on.
C3_MissingEntry ==
  (Accepted /\ ~HasOwner) =>
     /\ calls = << >>
     /\ \E i \in 1..Len(emitted) : emitted[i] = "missing_entry"
     /\ reply.ip_src \in ignored

C3_Witness ==
  /\ Accepted
  /\ Conflicting
  /\ ~HasOwner
  /\ emitted = << "is_poisoning", "missing_entry" >>

\* C4: the installer is invoked only on an affirmative answer; any other
\* line, the empty one included, is a refusal.
C4_NonAffirmativeDeclines ==
  calls # << >> => option \in {"Y", "y"}

\* C5: a reply from a hardware address the table does not know is reported
\* as a new device and nothing else: no decision request, no installer call,
\* no change of the ignore set.
C5_NewDeviceOnly ==
  /\ [](reply.opcode = ARPOP_REPLY /\ reply.hw_src \notin DOMAIN table
          => pc # "g_prompt" /\ calls = << >>)
  /\ [][ (pc = "g_classify" /\ reply.opcode = ARPOP_REPLY
            /\ reply.hw_src \notin DOMAIN table /\ pc' # pc) =>
           /\ emitted' = << "new_device" >>
           /\ prompts' = prompts
           /\ calls' = << >>
           /\ ignored' = ignored
           /\ pc' = "g_top" ]_vars

C5_Witness ==
  /\ pc = "g_top"
  /\ branch = "new_device"
  /\ reply.hw_src \notin DOMAIN table
  /\ HasOwner
  /\ reply.ip_src \notin ignored

\* C6: a reply that agrees with the table has no effect: no decision
\* request, no installer call, no report, ignore set and table unchanged.
C6_ConsistentSilent ==
  [][ (pc = "g_classify" /\ reply.opcode = ARPOP_REPLY
         /\ reply.hw_src \in DOMAIN table
         /\ table[reply.hw_src] = reply.ip_src /\ pc' # pc) =>
        /\ emitted' = << >>
        /\ prompts' = prompts
        /\ calls' = << >>
        /\ ignored' = ignored
        /\ table' = table
        /\ pc' = "g_top" ]_vars

C6_Witness ==
  /\ pc = "g_top"
  /\ branch = "consistent"
  /\ reply.hw_src \in DOMAIN table
  /\ table[reply.hw_src] = reply.ip_src
  /\ emitted = << >>

\* C7: when the flag is set while guard is blocked in read, no frame is
\* classified, reported or passed to the resolver afterwards.
C7_NoFrameAfterCancel ==
  sigAt = "g_read" =>
     /\ pc \notin {"g_classify", "g_prompt"}
     /\ branch \in {"none", "timeout"}
     /\ emitted = << >>

\* The loop of guard has been left.
LoopExited == pc = "closing" \/ (pc = "done" /\ exitCode = 0)

\* C8: once the flag is set the loop is eventually left, wherever the
\* iteration in progress is; and the loop is never left while the flag is
\* unset.
C8_CancelExits ==
  /\ (~active) ~> LoopExited
  /\ [](LoopExited => ~active)

\* C9: the table binds each hardware address to the address of the last
\* reply from it that resolved the candidate being probed (opcode reply,
\* sender address equal to the candidate); no other frame changes the table.
C9_LastAcceptedWins ==
  table = lastAccepted

C9_Witness ==
  /\ pc = "scanned"
  /\ Cardinality(DOMAIN table) = 2
  /\ table[1] = <<192,168,0,2>>
  /\ table[2] = <<192,168,0,1>>

\* C10: the candidates are firstHost, firstHost + 1, ... in host byte order,
\* each below lastHost, and when scan returns exactly lastHost - firstHost
\* requests have been sent.
C10_CandidateSequence ==
  /\ (pc = "scan_read" /\ sent < MaxSent) =>
        /\ Diff(ld.firstHost, host) = sent - 1
        /\ Diff(host, ld.lastHost) > 0
  /\ pc = "scanned" => sent = Diff(ld.firstHost, ld.lastHost)

\* The report r was printed while handling the current frame.
Reported(r) == \E i \in 1..Len(emitted) : emitted[i] = r

Scanning == pc \in {"scan_for", "scan_read"}

\* C11: scan returns, whatever the range and whatever the transport does.
C11_ScanTerminates ==
  Scanning ~> (pc = "scanned")

\* addARPEntry was called for the current frame and threw.
InstallerFailed ==
  /\ option # NoOption
  /\ calls # << >>
  /\ ~Reported("entry_added")

\* C12: when the installer fails the failure is reported, the address is
\* ignored from then on, and the loop goes on: the process does not end, and
\* unless cancelled guard blocks in the next read.
C12_InstallerFailureRecoverable ==
  /\ [](InstallerFailed =>
          /\ Reported("installer_error")
          /\ reply.ip_src \in ignored
          /\ exitCode # 1
          /\ (pc = "g_top" \/ ~active))
  /\ [][ (InstallerFailed /\ pc = "g_top" /\ active /\ pc' # pc) =>
           pc' = "g_read" ]_vars

C12_Witness ==
  /\ pc = "g_top"
  /\ active
  /\ branch = "install_failed"
  /\ Reported("installer_error")
  /\ reply.ip_src \in ignored

\* C13: a failed startup ends the process with 1 before any request is sent
\* and before any frame is read; a run that got through startup and ended
\* was cancelled and ends with 0.
C13_StartupFailureExits ==
  /\ startup \in {"usage", "loadLocalData_throws", "initSocket_throws"} =>
        /\ pc = "done"
        /\ exitCode = 1
        /\ sent = 0
        /\ reads = 0
        /\ table = EmptyTable
        /\ branch = "none"
  /\ (pc = "done" /\ startup = "ok") => (exitCode = 0 /\ ~active)

C13_Witness ==
  /\ startup = "initSocket_throws"
  /\ pc = "done"
  /\ exitCode = 1

\* C14: a request is sent only on entering the body for a candidate, never
\* between the reads; each candidate gets one to MAX_TRIES_FOR_RESOLV reads
\* and every frame that does not resolve it costs one attempt.
C14_OneRequestBoundedReads ==
  /\ [](pc = "scan_read" =>
          /\ reads < MAX_TRIES_FOR_RESOLV
          /\ attempts = MAX_TRIES_FOR_RESOLV - reads)
  /\ []((Scanning \/ pc = "scanned") /\ pc # "scan_read" /\ sent > 0 =>
          reads \in 1..MAX_TRIES_FOR_RESOLV)
  /\ [][ /\ sent' # sent =>
              (pc = "scan_for" /\ pc' = "scan_read" /\ sent' = sent + 1
                 /\ reads' = 0)
         /\ (pc = "scan_for" /\ pc' = "scan_read" /\ sent < MaxSent) =>
              sent' = sent + 1
         /\ pc = "scan_read" => sent' = sent
         /\ (pc = "scan_read" /\ pc' = "scan_read") => host' = host ]_vars

C14_Witness ==
  /\ pc = "scan_for"
  /\ rd = "nomatch"
  /\ reads = MAX_TRIES_FOR_RESOLV
  /\ sent = 2

\* C15: no read follows a read that timed out for the same candidate, and a
\* read that does not resolve the candidate leaves the table as it was and
\* ends nothing but, at most, the candidate's turn.
C15_TimeoutEndsCandidate ==
  /\ [](rd = "timeout" => pc # "scan_read")
  /\ [][ (pc = "scan_read" /\ rd' # "match") =>
           /\ table' = table
           /\ exitCode' = -1
           /\ pc' \in {"scan_read", "scan_for"} ]_vars

C15_Witness ==
  /\ pc = "scan_for"
  /\ rd = "timeout"
  /\ reads = 3
  /\ table = EmptyTable
  /\ sent = 2

\* C16: the missing-entry report is printed only when no entry records the
\* address; when one does, the one outcome reported after the prompt is the
\* installer's success or its failure.
C16_OneOutcomeReport ==
  /\ Reported("missing_entry") => ~HasOwner
  /\ (Accepted /\ HasOwner) => Len(emitted) = 2

\* C17: the ignore set is empty before guard runs, never loses an address,
\* and holds exactly the addresses for which a decision was requested and
\* has been answered.
C17_IgnoreSetExact ==
  /\ [](ignored = { ip \in FrameIPs :
                      prompts[ip] > 0 /\ ~(pc = "g_prompt" /\ ip = reply.ip_src) })
  /\ [](pc \in {"start", "scan_for", "scan_read", "scanned"} => ignored = {})
  /\ [][ignored \subseteq ignored']_vars

C17_Witness ==
  /\ pc = "g_top"
  /\ branch = "declined"
  /\ Cardinality(ignored) = 2
  /\ reply.ip_src \in ignored

\* C18: no step taken once scan has returned changes the table.
C18_TableReadOnly ==
  [][ ~Scanning /\ pc # "start" => table' = table ]_vars

C18_Witness ==
  /\ pc = "g_top"
  /\ branch = "new_device"
  /\ Cardinality(DOMAIN table) = 1
  /\ ignored # {}

\* C19: once scan has returned, no two hardware addresses are bound to the
\* same address and every recorded address lies in [firstHost, lastHost).
C19_InjectiveInRange ==
  (~Scanning /\ pc # "start") =>
     /\ \A g, h \in DOMAIN table : table[g] = table[h] => g = h
     /\ \A h \in DOMAIN table :
          /\ Diff(ld.firstHost, table[h]) >= 0
          /\ Diff(table[h], ld.lastHost) > 0

C19_Witness ==
  /\ pc = "scanned"
  /\ littleEndian
  /\ Cardinality(DOMAIN table) = 2
  /\ ld.lastHost = <<192,168,0,3>>

\* C20: the hardware address handed to the installer is never the sender of
\* the reply that raised the alert.
C20_NeverPinsSender ==
  \A i \in 1..Len(calls) : calls[i][2] # reply.hw_src

C20_Witness ==
  /\ pc = "g_top"
  /\ Len(calls) = 1
  /\ calls[1][1] = reply.ip_src
  /\ reply.hw_src \in DOMAIN table
  /\ calls[1][2] \in DOMAIN table

====
